---- MODULE Spec2Model ----
(***************************************************************************)
(* Model of keepass_backup.py: the staged upload / verify / swap /         *)
(* rollback protocol of backup_keepass and rollback, run against a remote  *)
(* object store whose calls may each succeed or fail.                      *)
(*                                                                         *)
(* One action per remote call or RunState update, in the order of the      *)
(* source.  A failed remote call leaves the store unchanged.  The transfer *)
(* the code verifies (upload to the temporary path and its verification    *)
(* download) may in addition deliver corrupted bytes.  No other process    *)
(* writes to the remote folder.                                            *)
(***************************************************************************)
EXTENDS Integers, Sequences, FiniteSets, TLC

\* ---------------------------------------------------------------- bounds
MaxRuns == 2
MaxClock == 2
NumContents == 2

\* ---------------------------------------------------------------- values
NoneVal == "None"
Absent == "absent"
Corrupt == "corrupt"
Contents == {"bytes" \o ToString(i) : i \in 1..NumContents}
ExcKinds == {"AuthError", "ApiError", "HttpError"}

\* Python truthiness of a value that is None or a non-empty string
Truthy(x) == x # NoneVal

\* ----------------------------------------------------------------- paths
DEFAULT_DROPBOX_FOLDER == "/KeepassBackups"
\* Path(source_file).name split as pathlib does: stem and suffix
SourceName == [stem |-> "keepass", suffix |-> ".kdbx"]
FileName(n) == n.stem \o n.suffix

\* datetime.now().strftime('%Y-%m-%d_%H-%M-%S') at second `now`
Strftime(now) == "2025-01-01_00-00-0" \o ToString(now)

generate_backup_filename_NoTimestamp(n, now) == n.stem \o n.suffix
generate_backup_filename(n, now) == n.stem \o "_" \o Strftime(now) \o n.suffix

DropboxFilePath == DEFAULT_DROPBOX_FOLDER \o "/" \o FileName(SourceName)
TempFilePath == DropboxFilePath \o ".tmp"
BackupPath(now) == DEFAULT_DROPBOX_FOLDER \o "/" \o generate_backup_filename(SourceName, now)
SnapshotPaths == {BackupPath(t) : t \in 1..MaxClock}
Paths == {DropboxFilePath, TempFilePath} \cup SnapshotPaths

\* -------------------------------------------------------------- checksum
calculate_checksum(bytes) == "sha256:" \o bytes

\* ------------------------------------------------------ remote store calls
\* outcomes the client can report for each call on store s
ExistsOutcomes(s, p) == {IF s[p] # Absent THEN "true" ELSE "false"} \cup ExcKinds
DownloadOutcomes(s, p) == IF s[p] = Absent THEN {"fail"} ELSE {"ok", "fail"}
UploadOutcomes == {"ok", "fail"}
DeleteOutcomes(s, p) == IF s[p] = Absent THEN {"fail"} ELSE {"ok", "fail"}
MoveOutcomes(s, from, to) ==
    IF s[from] = Absent \/ s[to] # Absent THEN {"fail"} ELSE {"ok", "fail"}

\* files_upload with WriteMode overwrite replaces whatever the path held
Uploaded_NoOverwrite(s, p, bytes) == IF s[p] = Absent THEN [s EXCEPT ![p] = bytes] ELSE s
Uploaded(s, p, bytes) == [s EXCEPT ![p] = bytes]
Deleted(s, p) == [s EXCEPT ![p] = Absent]
Moved(s, from, to) == [s EXCEPT ![to] = s[from], ![from] = Absent]

\* ------------------------------------------------------------------ state
VARIABLES
    store,        \* remote folder: path -> bytes or Absent
    localKind,    \* what source_file names: "file", "missing" or "dir"
    srcContent,   \* bytes of the local source file
    clock,        \* datetime.now(), in seconds
    runs,         \* invocations of backup_keepass so far
    pc,           \* position in backup_keepass / rollback
    state,        \* the state dict of backup_keepass
    file_exists,  \* local variable file_exists
    dbx,          \* TRUE once the local variable dbx is bound
    exc,          \* exception being handled
    file_data,    \* bytes held between a download and the upload after it
    verified,     \* value verify_upload is about to return
    localTemp,    \* the NamedTemporaryFile of verify_upload exists on disk
    rbSite,       \* call site of the running rollback
    rbSuccess,    \* local variable success of rollback
    result,       \* what backup_keepass gave its caller
    preStore,     \* history: store when the run started
    calls,        \* history: remote calls of this run
    logs,         \* history: log events of this run
    rbResults,    \* history: outcome of each rollback invocation of this run
    rbFailures,   \* history: per rollback invocation begun, whether one of its
                  \*          compensating calls failed
    prev          \* history: result and rollback outcomes of the previous run
                  \*          (recorded by SpecPair only)

vars == <<store, localKind, srcContent, clock, runs, pc, state, file_exists, dbx,
          exc, file_data, verified, localTemp, rbSite, rbSuccess, result,
          preStore, calls, logs, rbResults, rbFailures, prev>>

InitialState == [temp_file_created |-> FALSE, temp_path |-> NoneVal,
                 file_renamed |-> FALSE, old_path |-> NoneVal, new_path |-> NoneVal,
                 old_file_deleted |-> FALSE, backup_path |-> NoneVal,
                 dropbox_file_path |-> NoneVal]

NoResult == [kind |-> "none", success |-> FALSE, message |-> ""]
Returned(ok, msg) == [kind |-> "returned", success |-> ok, message |-> msg]
Raised(what) == [kind |-> "raised", success |-> FALSE, message |-> what]

NoPrev == [result |-> NoResult, rbResults |-> <<>>, rbSite |-> NoneVal]

Call(fn, op, path, out) == [fn |-> fn, op |-> op, path |-> path, out |-> out]
Log(level, msg, path) == [level |-> level, msg |-> msg, path |-> path]

Init ==
    /\ store \in {s \in [Paths -> Contents \cup {Absent}] :
                    \A p \in Paths \ {DropboxFilePath} : s[p] = Absent}
    /\ localKind \in {"file", "missing", "dir"}
    /\ srcContent \in Contents
    /\ clock = 1
    /\ runs = 1
    /\ pc = "validate"
    /\ state = InitialState
    /\ file_exists = FALSE
    /\ dbx = FALSE
    /\ exc = NoneVal
    /\ file_data = NoneVal
    /\ verified = FALSE
    /\ localTemp = FALSE
    /\ rbSite = NoneVal
    /\ rbSuccess = TRUE
    /\ result = NoResult
    /\ preStore = store
    /\ calls = {}
    /\ logs = {}
    /\ rbResults = <<>>
    /\ rbFailures = <<>>
    /\ prev = NoPrev

\* variables no step of a run changes
Inputs == <<localKind, srcContent, clock, runs, preStore, prev>>

\* ----------------------------------------------------- decisions of the code
\* lines 440-443: the source must exist and be a regular file
ValidSource_NoFileCheck(kind) == kind # "missing"
ValidSource(kind) == kind = "file"

InvalidSourceMessage(kind) ==
    IF kind = "missing" THEN "Source file not found" ELSE "Path is not a file"

\* line 287: verify_upload compares the two digests
ChecksumsMatch_Always(local_checksum, remote_checksum) == TRUE
ChecksumsMatch(local_checksum, remote_checksum) == local_checksum = remote_checksum

\* lines 206-215: create_backup_copy stores the downloaded bytes under backup_path
CopyStored_AsMove(s, from, to, bytes) == Deleted(Uploaded(s, to, bytes), from)
CopyStored(s, from, to, bytes) == Uploaded(s, to, bytes)

\* lines 464, 472: the snapshot is taken only when the final object exists
AfterExistsCheck_AlwaysSnapshot(exists) == "set_backup_path"
AfterExistsCheck(exists) == IF exists THEN "set_backup_path" ELSE "upload_temp"

\* lines 218-220, 471: a failed snapshot is logged and the run goes on
AfterSnapshotFailure_Fatal == "handler"
AfterSnapshotFailure == "upload_temp"

\* lines 484, 495: a failed verification or promote calls rollback
OnFailure_NoRollback(site) == IF site = "verify" THEN "rb_end" ELSE "rb_begin"
OnFailure(site) == "rb_begin"

\* lines 369-372: whatever delete_file returned, rollback goes on
AfterRbDeleteTemp_StopOnFailure(ok) == IF ok THEN "rb_rename_back" ELSE "rb_end"
AfterRbDeleteTemp(ok) == "rb_rename_back"

\* lines 389-396: the restore copies the snapshot to the final path
RestoreStored_AsMove(s, from, to, bytes) == Deleted(Uploaded(s, to, bytes), from)
RestoreStored_Swapped(s, from, to, bytes) == Uploaded(s, from, bytes)
RestoreStored(s, from, to, bytes) == Uploaded(s, to, bytes)

\* lines 498-503: nothing between the promote and the flag updates can raise
AfterMarkRenamed_Raises == "handler"
AfterMarkRenamed == "clear_temp"

\* line 365-367: rollback deletes the temporary object when it was created
RbTempCondition_Never(st) == FALSE
RbTempCondition(st) == st.temp_file_created /\ Truthy(st.temp_path)

\* line 373-376
RbRenameCondition(st) == st.file_renamed /\ Truthy(st.old_path) /\ Truthy(st.new_path)

\* line 382
RbRestoreCondition(st) == st.old_file_deleted /\ ~st.file_renamed

\* --------------------------------------------------------- backup_keepass
\* lines 437-446
Validate ==
    /\ pc = "validate"
    /\ IF ValidSource(localKind)
         THEN /\ pc' = "init_client"
              /\ UNCHANGED result
         ELSE /\ result' = Returned(FALSE, InvalidSourceMessage(localKind))
              /\ pc' = "done"
    /\ UNCHANGED <<store, Inputs, state, file_exists, dbx, exc, file_data, verified,
                   localTemp, rbSite, rbSuccess, calls, logs, rbResults, rbFailures>>

\* lines 448-459: the client constructor may raise; the paths are computed
InitClient ==
    /\ pc = "init_client"
    /\ \E out \in {"ok", "raise"} :
         IF out = "ok"
           THEN /\ dbx' = TRUE
                /\ state' = [state EXCEPT !.dropbox_file_path = DropboxFilePath]
                /\ pc' = "check_exists"
                /\ UNCHANGED exc
           ELSE /\ exc' = "Exception"
                /\ pc' = "handler"
                /\ UNCHANGED <<dbx, state>>
    /\ UNCHANGED <<store, Inputs, file_exists, file_data, verified, localTemp,
                   rbSite, rbSuccess, result, calls, logs, rbResults, rbFailures>>

\* lines 461-464, 472-473: check_file_exists(dbx, dropbox_file_path)
CheckExists ==
    /\ pc = "check_exists"
    /\ \E out \in ExistsOutcomes(store, DropboxFilePath) :
         /\ calls' = calls \cup {Call("backup_keepass", "exists", DropboxFilePath, out)}
         /\ IF out \in ExcKinds
              THEN /\ exc' = out
                   /\ pc' = "handler"
                   /\ UNCHANGED file_exists
              ELSE /\ file_exists' = (out = "true")
                   /\ pc' = AfterExistsCheck(out = "true")
                   /\ UNCHANGED exc
    /\ UNCHANGED <<store, Inputs, state, dbx, file_data, verified, localTemp,
                   rbSite, rbSuccess, result, logs, rbResults, rbFailures>>

\* lines 465-468
SetBackupPath ==
    /\ pc = "set_backup_path"
    /\ state' = [state EXCEPT !.backup_path = BackupPath(clock)]
    /\ pc' = "bk_download"
    /\ UNCHANGED <<store, Inputs, file_exists, dbx, exc, file_data, verified, localTemp,
                   rbSite, rbSuccess, result, calls, logs, rbResults, rbFailures>>

\* lines 203-207, 218-220: create_backup_copy downloads the existing object
BkDownload ==
    /\ pc = "bk_download"
    /\ \E out \in DownloadOutcomes(store, DropboxFilePath) :
         /\ calls' = calls \cup {Call("create_backup_copy", "download", DropboxFilePath, out)}
         /\ IF out = "ok"
              THEN /\ file_data' = store[DropboxFilePath]
                   /\ pc' = "bk_upload"
                   /\ UNCHANGED logs
              ELSE /\ logs' = logs \cup {Log("warning", "Failed to create backup copy", NoneVal)}
                   /\ pc' = AfterSnapshotFailure
                   /\ UNCHANGED file_data
    /\ UNCHANGED <<store, Inputs, state, file_exists, dbx, exc, verified, localTemp,
                   rbSite, rbSuccess, result, rbResults, rbFailures>>

\* lines 209-220: create_backup_copy uploads it under backup_path; the
\* return value is dropped at line 471
BkUpload ==
    /\ pc = "bk_upload"
    /\ \E out \in UploadOutcomes :
         /\ calls' = calls \cup {Call("create_backup_copy", "upload", state.backup_path, out)}
         /\ IF out = "ok"
              THEN /\ store' = CopyStored(store, DropboxFilePath, state.backup_path, file_data)
                   /\ logs' = logs \cup {Log("info", "Backup copy created successfully",
                                             state.backup_path)}
                   /\ pc' = "upload_temp"
              ELSE /\ logs' = logs \cup {Log("warning", "Failed to create backup copy", NoneVal)}
                   /\ pc' = AfterSnapshotFailure
                   /\ UNCHANGED store
    /\ file_data' = NoneVal
    /\ UNCHANGED <<Inputs, state, file_exists, dbx, exc, verified, localTemp,
                   rbSite, rbSuccess, result, rbResults, rbFailures>>

\* lines 475-477, 236-251: upload_file_temp; the stored bytes may be corrupted
UploadTemp ==
    /\ pc = "upload_temp"
    /\ \E out \in UploadOutcomes, bytes \in {srcContent, Corrupt} :
         /\ calls' = calls \cup {Call("upload_file_temp", "upload", TempFilePath, out)}
         /\ IF out = "ok"
              THEN /\ store' = Uploaded(store, TempFilePath, bytes)
                   /\ pc' = "mark_temp"
                   /\ UNCHANGED <<result, logs>>
              ELSE /\ logs' = logs \cup {Log("error", "Failed to upload file", NoneVal)}
                   /\ result' = Returned(FALSE, "Failed to upload file to Dropbox")
                   /\ pc' = "done"
                   /\ UNCHANGED store
    /\ UNCHANGED <<Inputs, state, file_exists, dbx, exc, file_data, verified, localTemp,
                   rbSite, rbSuccess, rbResults, rbFailures>>

\* lines 479-480
MarkTemp ==
    /\ pc = "mark_temp"
    /\ state' = [state EXCEPT !.temp_file_created = TRUE, !.temp_path = TempFilePath]
    /\ pc' = "verify"
    /\ UNCHANGED <<store, Inputs, file_exists, dbx, exc, file_data, verified, localTemp,
                   rbSite, rbSuccess, result, calls, logs, rbResults, rbFailures>>

\* lines 267-276, 299-301: verify_upload digests the local file and creates its
\* temporary file; either may raise
VerifyBegin ==
    /\ pc = "verify"
    /\ \E out \in {"ok", "fail"} :
         IF out = "ok"
           THEN /\ localTemp' = TRUE
                /\ pc' = "verify_download"
                /\ UNCHANGED <<verified, logs>>
           ELSE /\ verified' = FALSE
                /\ logs' = logs \cup {Log("error", "Error during verification", NoneVal)}
                /\ pc' = "verify_return"
                /\ UNCHANGED localTemp
    /\ UNCHANGED <<store, Inputs, state, file_exists, dbx, exc, file_data,
                   rbSite, rbSuccess, result, calls, rbResults, rbFailures>>

\* lines 277-292: download the temporary object and compare the digests
VerifyDownload ==
    /\ pc = "verify_download"
    /\ \E out \in DownloadOutcomes(store, TempFilePath),
          bytes \in {store[TempFilePath], Corrupt} :
         /\ calls' = calls \cup {Call("verify_upload", "download", TempFilePath, out)}
         /\ IF out = "ok"
              THEN /\ verified' = ChecksumsMatch(calculate_checksum(srcContent),
                                                 calculate_checksum(bytes))
                   /\ logs' = logs \cup
                        {IF verified' THEN Log("info", "File integrity verified", NoneVal)
                                      ELSE Log("error", "File integrity check failed", NoneVal)}
              ELSE /\ verified' = FALSE
                   /\ logs' = logs \cup {Log("error", "Error during verification", NoneVal)}
    /\ pc' = "verify_cleanup"
    /\ UNCHANGED <<store, Inputs, state, file_exists, dbx, exc, file_data, localTemp,
                   rbSite, rbSuccess, result, rbResults, rbFailures>>

\* lines 293-298: os.unlink of the temporary file, while it is still open;
\* a failure is swallowed
VerifyCleanup ==
    /\ pc = "verify_cleanup"
    /\ \E out \in {"ok", "fail"} : localTemp' = (out = "fail")
    /\ pc' = "verify_return"
    /\ UNCHANGED <<store, Inputs, state, file_exists, dbx, exc, file_data, verified,
                   rbSite, rbSuccess, result, calls, logs, rbResults, rbFailures>>

\* lines 483-484
VerifyReturn ==
    /\ pc = "verify_return"
    /\ IF verified
         THEN /\ pc' = "delete_old"
              /\ UNCHANGED rbSite
         ELSE /\ rbSite' = "verify"
              /\ pc' = OnFailure("verify")
    /\ UNCHANGED <<store, Inputs, state, file_exists, dbx, exc, file_data, verified,
                   localTemp, rbSuccess, result, calls, logs, rbResults, rbFailures>>

\* lines 488-491, 339-346: delete_file on the final path when it existed
DeleteOld ==
    /\ pc = "delete_old"
    /\ IF file_exists
         THEN \E out \in DeleteOutcomes(store, DropboxFilePath) :
                /\ calls' = calls \cup {Call("backup_keepass", "delete", DropboxFilePath, out)}
                /\ IF out = "ok"
                     THEN /\ store' = Deleted(store, DropboxFilePath)
                          /\ pc' = "mark_deleted"
                          /\ UNCHANGED logs
                     ELSE /\ logs' = logs \cup {Log("warning", "Failed to delete file",
                                                   DropboxFilePath)}
                          /\ pc' = "rename"
                          /\ UNCHANGED store
         ELSE /\ pc' = "rename"
              /\ UNCHANGED <<store, calls, logs>>
    /\ UNCHANGED <<Inputs, state, file_exists, dbx, exc, file_data, verified, localTemp,
                   rbSite, rbSuccess, result, rbResults, rbFailures>>

\* line 492
MarkDeleted ==
    /\ pc = "mark_deleted"
    /\ state' = [state EXCEPT !.old_file_deleted = TRUE]
    /\ pc' = "rename"
    /\ UNCHANGED <<store, Inputs, file_exists, dbx, exc, file_data, verified, localTemp,
                   rbSite, rbSuccess, result, calls, logs, rbResults, rbFailures>>

\* lines 494-495, 317-324: rename_file(temp_file_path, dropbox_file_path)
Rename ==
    /\ pc = "rename"
    /\ \E out \in MoveOutcomes(store, TempFilePath, DropboxFilePath) :
         /\ calls' = calls \cup {Call("backup_keepass", "move", TempFilePath, out)}
         /\ IF out = "ok"
              THEN /\ store' = Moved(store, TempFilePath, DropboxFilePath)
                   /\ pc' = "mark_renamed"
                   /\ UNCHANGED <<rbSite, logs>>
              ELSE /\ logs' = logs \cup {Log("error", "Failed to rename file", TempFilePath)}
                   /\ rbSite' = "rename"
                   /\ pc' = OnFailure("rename")
                   /\ UNCHANGED store
    /\ UNCHANGED <<Inputs, state, file_exists, dbx, exc, file_data, verified, localTemp,
                   rbSuccess, result, rbResults, rbFailures>>

\* lines 498-500
MarkRenamed ==
    /\ pc = "mark_renamed"
    /\ state' = [state EXCEPT !.file_renamed = TRUE, !.old_path = TempFilePath,
                              !.new_path = DropboxFilePath]
    /\ pc' = AfterMarkRenamed
    /\ UNCHANGED <<store, Inputs, file_exists, dbx, exc, file_data, verified, localTemp,
                   rbSite, rbSuccess, result, calls, logs, rbResults, rbFailures>>

\* line 503
ClearTemp ==
    /\ pc = "clear_temp"
    /\ state' = [state EXCEPT !.temp_file_created = FALSE]
    /\ pc' = "clear_deleted"
    /\ UNCHANGED <<store, Inputs, file_exists, dbx, exc, file_data, verified, localTemp,
                   rbSite, rbSuccess, result, calls, logs, rbResults, rbFailures>>

\* line 505
ClearDeleted ==
    /\ pc = "clear_deleted"
    /\ state' = [state EXCEPT !.old_file_deleted = FALSE]
    /\ pc' = "return_success"
    /\ UNCHANGED <<store, Inputs, file_exists, dbx, exc, file_data, verified, localTemp,
                   rbSite, rbSuccess, result, calls, logs, rbResults, rbFailures>>

\* lines 507-508
ReturnSuccess ==
    /\ pc = "return_success"
    /\ result' = Returned(TRUE, "Successfully backed up")
    /\ logs' = logs \cup {Log("info", "Backup completed successfully", NoneVal)}
    /\ pc' = "done"
    /\ UNCHANGED <<store, Inputs, state, file_exists, dbx, exc, file_data, verified,
                   localTemp, rbSite, rbSuccess, calls, rbResults, rbFailures>>

\* ---------------------------------------------------------------- rollback
\* what the caller does with an exception out of rollback: inside the try
\* block (lines 484, 495) it reaches the handlers of lines 510-526, inside a
\* handler it leaves backup_keepass
\* history: a compensating call of the running rollback invocation failed
ActionFailed(f) == [f EXCEPT ![Len(f)] = TRUE]

RollbackRaises(kind) ==
    /\ rbResults' = Append(rbResults, "raised")
    /\ IF rbSite = "handler"
         THEN /\ result' = Raised(kind)
              /\ pc' = "done"
              /\ UNCHANGED exc
         ELSE /\ exc' = kind
              /\ pc' = "handler"
              /\ UNCHANGED result

\* lines 361-362
RbBegin ==
    /\ pc = "rb_begin"
    /\ rbSuccess' = TRUE
    /\ logs' = logs \cup {Log("warning", "Starting rollback procedure", NoneVal)}
    /\ pc' = "rb_delete_temp"
    /\ rbFailures' = Append(rbFailures, FALSE)
    /\ UNCHANGED <<store, Inputs, state, file_exists, dbx, exc, file_data, verified,
                   localTemp, rbSite, result, calls, rbResults>>

\* lines 364-370
RbDeleteTemp ==
    /\ pc = "rb_delete_temp"
    /\ IF RbTempCondition(state)
         THEN \E out \in DeleteOutcomes(store, state.temp_path) :
                /\ calls' = calls \cup {Call("rollback", "delete", state.temp_path, out)}
                /\ IF out = "ok"
                     THEN /\ store' = Deleted(store, state.temp_path)
                          /\ UNCHANGED <<rbSuccess, logs, rbFailures>>
                     ELSE /\ rbSuccess' = FALSE
                          /\ rbFailures' = ActionFailed(rbFailures)
                          /\ logs' = logs \cup {Log("warning", "Failed to delete file",
                                                   state.temp_path)}
                          /\ UNCHANGED store
                /\ pc' = AfterRbDeleteTemp(out = "ok")
         ELSE /\ pc' = "rb_rename_back"
              /\ UNCHANGED <<store, calls, rbSuccess, logs, rbFailures>>
    /\ UNCHANGED <<Inputs, state, file_exists, dbx, exc, file_data, verified, localTemp,
                   rbSite, result, rbResults>>

\* lines 372-379
RbRenameBack ==
    /\ pc = "rb_rename_back"
    /\ IF RbRenameCondition(state)
         THEN \E out \in MoveOutcomes(store, state.new_path, state.old_path) :
                /\ calls' = calls \cup {Call("rollback", "move", state.new_path, out)}
                /\ IF out = "ok"
                     THEN /\ store' = Moved(store, state.new_path, state.old_path)
                          /\ UNCHANGED <<rbSuccess, logs, rbFailures>>
                     ELSE /\ rbSuccess' = FALSE
                          /\ rbFailures' = ActionFailed(rbFailures)
                          /\ logs' = logs \cup {Log("error", "Failed to rename file",
                                                   state.new_path)}
                          /\ UNCHANGED store
         ELSE UNCHANGED <<store, calls, rbSuccess, logs, rbFailures>>
    /\ pc' = "rb_check_backup"
    /\ UNCHANGED <<Inputs, state, file_exists, dbx, exc, file_data, verified, localTemp,
                   rbSite, result, rbResults>>

\* lines 381-385: check_file_exists(dbx, backup_path) is outside any try
RbCheckBackup ==
    /\ pc = "rb_check_backup"
    /\ IF /\ RbRestoreCondition(state)
          /\ Truthy(state.backup_path)
          /\ Truthy(state.dropbox_file_path)
         THEN \E out \in ExistsOutcomes(store, state.backup_path) :
                /\ calls' = calls \cup {Call("rollback", "exists", state.backup_path, out)}
                /\ IF out \in ExcKinds
                     THEN RollbackRaises(out)
                     ELSE /\ pc' = IF out = "true" THEN "rb_download" ELSE "rb_end"
                          /\ UNCHANGED <<exc, result, rbResults>>
         ELSE /\ pc' = "rb_end"
              /\ UNCHANGED <<exc, result, rbResults, calls>>
    /\ UNCHANGED rbFailures
    /\ UNCHANGED <<store, Inputs, state, file_exists, dbx, file_data, verified, localTemp,
                   rbSite, rbSuccess, logs>>

\* the except branch of lines 398-401
RestoreFailed ==
    /\ rbSuccess' = FALSE
    /\ rbFailures' = ActionFailed(rbFailures)
    /\ logs' = logs \cup {Log("error", "Failed to restore from backup", NoneVal),
                          Log("warning", "Backup copy is still available at",
                              state.backup_path)}

\* lines 386-390
RbDownload ==
    /\ pc = "rb_download"
    /\ \E out \in DownloadOutcomes(store, state.backup_path) :
         /\ calls' = calls \cup {Call("rollback", "download", state.backup_path, out)}
         /\ IF out = "ok"
              THEN /\ file_data' = store[state.backup_path]
                   /\ pc' = "rb_upload"
                   /\ UNCHANGED <<rbSuccess, logs, rbFailures>>
              ELSE /\ RestoreFailed
                   /\ pc' = "rb_end"
                   /\ UNCHANGED file_data
    /\ UNCHANGED <<store, Inputs, state, file_exists, dbx, exc, verified, localTemp,
                   rbSite, result, rbResults>>

\* lines 391-401
RbUpload ==
    /\ pc = "rb_upload"
    /\ \E out \in UploadOutcomes :
         /\ calls' = calls \cup {Call("rollback", "upload", state.dropbox_file_path, out)}
         /\ IF out = "ok"
              THEN /\ store' = RestoreStored(store, state.backup_path,
                                              state.dropbox_file_path, file_data)
                   /\ logs' = logs \cup {Log("info", "Original file restored from backup",
                                             NoneVal)}
                   /\ UNCHANGED <<rbSuccess, rbFailures>>
              ELSE /\ RestoreFailed
                   /\ UNCHANGED store
    /\ file_data' = NoneVal
    /\ pc' = "rb_end"
    /\ UNCHANGED <<Inputs, state, file_exists, dbx, exc, verified, localTemp,
                   rbSite, result, rbResults>>

\* the message backup_keepass returns after the rollback of each call site
FailureMessage(site, kind) ==
    CASE site = "verify" -> "File integrity verification failed"
      [] site = "rename" -> "Failed to rename temporary file to final name"
      [] site = "handler" /\ kind = "AuthError" -> "Authentication error"
      [] site = "handler" /\ kind = "ApiError" -> "Dropbox API error"
      [] site = "handler" /\ kind = "HttpError" -> "HTTP error"
      [] OTHER -> "Unexpected error"

\* lines 403-408, then the return after the call (485, 496, 514, 518, 522, 526)
RbEnd ==
    /\ pc = "rb_end"
    /\ logs' = logs \cup {IF rbSuccess
                            THEN Log("info", "Rollback completed successfully", NoneVal)
                            ELSE Log("error", "Rollback completed with some errors", NoneVal)}
    /\ rbResults' = Append(rbResults, IF rbSuccess THEN "true" ELSE "false")
    /\ result' = Returned(FALSE, FailureMessage(rbSite, exc))
    /\ pc' = "done"
    /\ UNCHANGED <<store, Inputs, state, file_exists, dbx, exc, file_data, verified,
                   localTemp, rbSite, rbSuccess, calls, rbFailures>>

\* lines 510-526: every handler logs and calls rollback(dbx, state, logger);
\* with dbx unbound the call itself raises UnboundLocalError
Handler ==
    /\ pc = "handler"
    /\ logs' = logs \cup {Log("error", FailureMessage("handler", exc), NoneVal)}
    /\ IF dbx
         THEN /\ rbSite' = "handler"
              /\ pc' = "rb_begin"
              /\ UNCHANGED result
         ELSE /\ result' = Raised("UnboundLocalError")
              /\ pc' = "done"
              /\ UNCHANGED rbSite
    /\ UNCHANGED <<store, Inputs, state, file_exists, dbx, exc, file_data, verified,
                   localTemp, rbSuccess, calls, rbResults, rbFailures>>

\* ------------------------------------------------------------------- runs
\* the next invocation of backup_keepass (lines 427-435), at the same second
\* or a later one, against the folder as the last run left it
NextRunRecording(p) ==
    /\ pc = "done"
    /\ runs < MaxRuns
    /\ runs' = runs + 1
    /\ clock' \in {c \in {clock, clock + 1} : c <= MaxClock}
    /\ localKind' \in {"file", "missing", "dir"}
    /\ srcContent' \in Contents
    /\ preStore' = store
    /\ pc' = "validate"
    /\ state' = InitialState
    /\ file_exists' = FALSE
    /\ dbx' = FALSE
    /\ exc' = NoneVal
    /\ file_data' = NoneVal
    /\ verified' = FALSE
    /\ localTemp' = FALSE
    /\ rbSite' = NoneVal
    /\ rbSuccess' = TRUE
    /\ result' = NoResult
    /\ calls' = {}
    /\ logs' = {}
    /\ rbResults' = <<>>
    /\ rbFailures' = <<>>
    /\ prev' = p
    /\ UNCHANGED store

NextRun == NextRunRecording(NoPrev)

\* the same, keeping the outcome of the run that just ended for comparison
NextRunAfter ==
    NextRunRecording([result |-> result, rbResults |-> rbResults, rbSite |-> rbSite])

RunStep ==
    \/ Validate
    \/ InitClient
    \/ CheckExists
    \/ SetBackupPath
    \/ BkDownload
    \/ BkUpload
    \/ UploadTemp
    \/ MarkTemp
    \/ VerifyBegin
    \/ VerifyDownload
    \/ VerifyCleanup
    \/ VerifyReturn
    \/ DeleteOld
    \/ MarkDeleted
    \/ Rename
    \/ MarkRenamed
    \/ ClearTemp
    \/ ClearDeleted
    \/ ReturnSuccess
    \/ RbBegin
    \/ RbDeleteTemp
    \/ RbRenameBack
    \/ RbCheckBackup
    \/ RbDownload
    \/ RbUpload
    \/ RbEnd
    \/ Handler

Next == RunStep \/ NextRun

Spec == Init /\ [][Next]_vars

\* two runs whose results can be compared
NextPair == RunStep \/ NextRunAfter

SpecPair == Init /\ [][NextPair]_vars

\* ================================================================ properties
Done == pc = "done"
Succeeded == result.kind = "returned" /\ result.success
FailedWith(msg) == Done /\ result = Returned(FALSE, msg)
Issued(fn, op, path) == \E c \in calls : c.fn = fn /\ c.op = op /\ c.path = path
FinalExistedBefore == preStore[DropboxFilePath] # Absent
SnapshotCreated ==
    /\ Call("create_backup_copy", "download", DropboxFilePath, "ok") \in calls
    /\ Truthy(state.backup_path)
    /\ Call("create_backup_copy", "upload", state.backup_path, "ok") \in calls
DeletedThenPromoteFailed ==
    /\ Call("backup_keepass", "delete", DropboxFilePath, "ok") \in calls
    /\ Call("backup_keepass", "move", TempFilePath, "fail") \in calls

\* C1: once a run has ended, a final path that held an object before the run
\* holds either that pre-run content or the new source content.
C1_NeverWorse ==
    (Done /\ FinalExistedBefore) =>
        store[DropboxFilePath] \in {preStore[DropboxFilePath], srcContent}

\* C2: when promote fails after the old final object was deleted, after
\* rollback either the final path holds the content restored from the snapshot
\* or a log entry names the snapshot path for manual recovery.
C2_RestoredOrLogged ==
    (Done /\ DeletedThenPromoteFailed) =>
        \/ /\ Call("rollback", "upload", DropboxFilePath, "ok") \in calls
           /\ store[DropboxFilePath] = preStore[DropboxFilePath]
        \/ Log("warning", "Backup copy is still available at", state.backup_path) \in logs

\* C3: whenever backup_keepass returns success the final object equals the
\* source file, its bytes passed the download-and-compare check, no temporary
\* object remains, and from an empty folder only the final object exists.
C3_SuccessIsVerified ==
    Succeeded =>
        /\ store[DropboxFilePath] = srcContent
        /\ Call("verify_upload", "download", TempFilePath, "ok") \in calls
        /\ verified
        /\ store[TempFilePath] = Absent
        /\ (\A p \in Paths : preStore[p] = Absent) =>
               (\A p \in Paths \ {DropboxFilePath} : store[p] = Absent)

C3_Witness ==
    /\ Succeeded
    /\ \A p \in Paths : preStore[p] = Absent

\* C4 as stated: a run that fails at verification reports failure, the
\* temporary object is absent after rollback and the final object unchanged.
C4_TempAlwaysGone ==
    FailedWith("File integrity verification failed") =>
        /\ store[TempFilePath] = Absent
        /\ store[DropboxFilePath] = preStore[DropboxFilePath]

\* C4 amended: a run that fails at verification reports failure and leaves the
\* final object unchanged; the temporary object is absent exactly when
\* rollback returned true (its deletion of the temporary object succeeded).
C4_TempGoneIfRollbackOk ==
    (Done /\ result.message = "File integrity verification failed") =>
        /\ result = Returned(FALSE, "File integrity verification failed")
        /\ store[DropboxFilePath] = preStore[DropboxFilePath]
        /\ Len(rbResults) = 1
        /\ (rbResults[1] = "true") <=> (store[TempFilePath] = Absent)

C4_Witness ==
    /\ FailedWith("File integrity verification failed")
    /\ FinalExistedBefore
    /\ rbResults = <<"true">>
    /\ Call("verify_upload", "download", TempFilePath, "ok") \in calls

\* C5 as stated: a run that fails at the temporary upload leaves the final
\* object as before the run and no object at the temporary path.
C5_NoTempAfterUploadFailure ==
    FailedWith("Failed to upload file to Dropbox") =>
        /\ store[DropboxFilePath] = preStore[DropboxFilePath]
        /\ store[TempFilePath] = Absent

\* C5 amended: a run that fails at the temporary upload leaves both the final
\* path and the temporary path exactly as they were before the run.
C5_UploadFailureChangesNeither ==
    FailedWith("Failed to upload file to Dropbox") =>
        /\ store[DropboxFilePath] = preStore[DropboxFilePath]
        /\ store[TempFilePath] = preStore[TempFilePath]

C5_Witness ==
    /\ FailedWith("Failed to upload file to Dropbox")
    /\ FinalExistedBefore
    /\ preStore[TempFilePath] # Absent
    /\ SnapshotCreated

\* C6: when the deletion of the old final object fails, the promote is not
\* attempted, rollback runs and the run returns failure.
C6_DeleteFailureIsFatal ==
    Call("backup_keepass", "delete", DropboxFilePath, "fail") \in calls =>
        /\ ~Issued("backup_keepass", "move", TempFilePath)
        /\ Done => (~Succeeded /\ Len(rbResults) > 0)

\* C7: rollback never raises to its caller.
C7_RollbackNeverRaises ==
    \A i \in 1..Len(rbResults) : rbResults[i] # "raised"

\* C8 as stated: a successful run over an existing final object X leaves the
\* source content at the final path and exactly one snapshot of this run, with
\* a timestamp-suffixed name and content X.
C8_SnapshotAlwaysExists ==
    (Succeeded /\ FinalExistedBefore) =>
        /\ store[DropboxFilePath] = srcContent
        /\ state.backup_path \in SnapshotPaths
        /\ store[state.backup_path] = preStore[DropboxFilePath]
        /\ Cardinality({c.path : c \in {d \in calls :
               d.fn = "create_backup_copy" /\ d.op = "upload" /\ d.out = "ok"}}) = 1

\* C8 amended: a successful run over an existing final object X leaves the
\* source content at the final path; if its snapshot creation succeeded, the
\* one object it created besides is the snapshot, with a timestamp-suffixed
\* name and content X; if it failed, the run created no snapshot.
C8_SnapshotIfCreated ==
    (Succeeded /\ FinalExistedBefore) =>
        /\ store[DropboxFilePath] = srcContent
        /\ state.backup_path = DEFAULT_DROPBOX_FOLDER \o "/" \o SourceName.stem \o "_"
                                 \o Strftime(clock) \o SourceName.suffix
        /\ state.backup_path \notin {DropboxFilePath, TempFilePath}
        /\ \A p \in Paths \ {DropboxFilePath, TempFilePath, state.backup_path} :
               store[p] = preStore[p]
        /\ IF SnapshotCreated
             THEN store[state.backup_path] = preStore[DropboxFilePath]
             ELSE store[state.backup_path] = preStore[state.backup_path]

C8_Witness ==
    /\ Succeeded
    /\ FinalExistedBefore
    /\ SnapshotCreated
    /\ preStore[DropboxFilePath] # srcContent
    /\ store[state.backup_path] = preStore[DropboxFilePath]

\* C9: when the existence check of the final path answers false, the run
\* never attempts or creates a snapshot: no snapshot path is recorded, no
\* create_backup_copy call is made and no snapshot object changes, rollback
\* included.
C9_NoSnapshotWithoutOriginal ==
    Call("backup_keepass", "exists", DropboxFilePath, "false") \in calls =>
        /\ state.backup_path = NoneVal
        /\ \A c \in calls : c.fn # "create_backup_copy" /\ c.path \notin SnapshotPaths
        /\ \A p \in SnapshotPaths : store[p] = preStore[p]

C9_Witness ==
    /\ Done
    /\ Call("backup_keepass", "exists", DropboxFilePath, "false") \in calls
    /\ Len(rbResults) > 0

\* C10: with a source that is missing or not a regular file, backup_keepass
\* returns failure without any remote call, client or rollback action, and
\* the store is unchanged.
C10_InvalidSourceTouchesNothing ==
    localKind # "file" =>
        /\ calls = {}
        /\ ~dbx
        /\ rbResults = <<>>
        /\ pc \in {"validate", "done"}
        /\ store = preStore
        /\ Done => result = Returned(FALSE, InvalidSourceMessage(localKind))

C10_Witness ==
    /\ Done
    /\ localKind = "dir"
    /\ result = Returned(FALSE, "Path is not a file")

\* ------------------------------------------------------------ C11 .. C20
ReturnedFailure == Done /\ result.kind = "returned" /\ ~result.success
RollbackStarted == Log("warning", "Starting rollback procedure", NoneVal) \in logs
Last(s) == s[Len(s)]
RollbackReturned == Len(rbResults) > 0 /\ Last(rbResults) # "raised"
SnapshotFailed == \E c \in calls : c.fn = "create_backup_copy" /\ c.out = "fail"
NoFlagSet ==
    ~state.temp_file_created /\ ~state.old_file_deleted /\ ~state.file_renamed

\* C11 as stated: every fatal condition of a run on a valid source, the
\* temporary-upload failure included, has rollback invoked before the failure
\* result is returned.
C11_RollbackBeforeEveryFailure ==
    (ReturnedFailure /\ localKind = "file") => RollbackStarted

\* C11 amended: every failure result of a run on a valid source other than the
\* temporary-upload failure is returned after rollback was invoked and has
\* returned; the temporary-upload failure is returned without any rollback, no
\* RunState flag being set.
C11_RollbackUnlessUploadFailed ==
    (ReturnedFailure /\ localKind = "file") =>
        IF result.message = "Failed to upload file to Dropbox"
          THEN ~RollbackStarted /\ rbFailures = <<>> /\ rbResults = <<>> /\ NoFlagSet
          ELSE RollbackStarted /\ Len(rbFailures) > 0 /\ RollbackReturned

C11_Witness ==
    /\ FailedWith("Failed to rename temporary file to final name")
    /\ Call("backup_keepass", "delete", DropboxFilePath, "fail") \in calls
    /\ RollbackStarted
    /\ Len(rbResults) = 1

\* C12: two failing runs that fail at the same step, one with rollback
\* returning true and one with rollback returning false, return different
\* results.
C12_RollbackOutcomeInResult ==
    (/\ ReturnedFailure
     /\ RollbackReturned
     /\ prev.result.kind = "returned"
     /\ ~prev.result.success
     /\ Len(prev.rbResults) > 0
     /\ Last(prev.rbResults) # "raised"
     /\ prev.rbSite = rbSite
     /\ Last(prev.rbResults) # Last(rbResults))
        => prev.result # result

\* C13: at every state update old_file_deleted is true only while
\* file_renamed is false, and temp_file_created is never true together with
\* file_renamed.
C13_FlagsExclusive ==
    /\ state.old_file_deleted => ~state.file_renamed
    /\ ~(state.temp_file_created /\ state.file_renamed)

\* C14: a recorded snapshot path implies that the download of the existing
\* object and its upload under the snapshot path both succeeded in this run.
C14_PathOnlyIfSnapshot ==
    Truthy(state.backup_path) => SnapshotCreated

\* C15: a failed snapshot creation is not fatal: until the temporary upload is
\* issued the run stands at the temporary upload, with no result, no rollback
\* and no RunState flag set (and it can still end in success: the witness).
C15_SnapshotFailureNotFatal ==
    (SnapshotFailed /\ ~Issued("upload_file_temp", "upload", TempFilePath)) =>
        /\ pc = "upload_temp"
        /\ result = NoResult
        /\ ~RollbackStarted
        /\ rbFailures = <<>>
        /\ NoFlagSet

C15_Witness ==
    /\ Succeeded
    /\ SnapshotFailed
    /\ rbResults = <<>>

\* C16: a rollback invocation that has returned attempted every compensating
\* action whose RunState condition holds, whatever the others' outcome: the
\* deletion of the temporary object, and the restore (existence check of the
\* snapshot, then its download, then the upload to the final path).
C16_ActionsIndependent ==
    RollbackReturned =>
        /\ RbTempCondition(state) => Issued("rollback", "delete", state.temp_path)
        /\ (RbRestoreCondition(state) /\ Truthy(state.backup_path)) =>
               Issued("rollback", "exists", state.backup_path)
        /\ Call("rollback", "exists", state.backup_path, "true") \in calls =>
               Issued("rollback", "download", state.backup_path)
        /\ Call("rollback", "download", state.backup_path, "ok") \in calls =>
               Issued("rollback", "upload", state.dropbox_file_path)

C16_Witness ==
    /\ rbResults = <<"false">>
    /\ Call("rollback", "delete", TempFilePath, "fail") \in calls
    /\ Call("rollback", "upload", DropboxFilePath, "ok") \in calls

\* C17: every rollback invocation returns true only if none of its attempted
\* actions failed, and returns false whenever one of them failed.
C17_ReturnValueIsConjunction ==
    \A i \in 1..Len(rbResults) :
        /\ rbResults[i] = "true" => ~rbFailures[i]
        /\ rbFailures[i] => rbResults[i] = "false"

\* C18: once the snapshot was created, it holds the pre-run content of the
\* final path for the rest of the run, on the success path and in rollback.
C18_SnapshotKept ==
    SnapshotCreated => store[state.backup_path] = preStore[DropboxFilePath]

C18_Witness ==
    /\ Done
    /\ SnapshotCreated
    /\ Call("rollback", "upload", DropboxFilePath, "ok") \in calls
    /\ store[DropboxFilePath] = preStore[DropboxFilePath]

\* C19: no local temporary file of verify_upload exists once verify_upload
\* has returned.
C19_LocalTempRemoved ==
    pc \notin {"verify_download", "verify_cleanup"} => ~localTemp

\* C20: the old final object is deleted only after the temporary upload
\* succeeded and verification passed, the promote is issued only after
\* verification passed, and no failed step is followed by a later protocol step.
C20_StrictOrder ==
    /\ Issued("backup_keepass", "delete", DropboxFilePath) =>
           /\ Call("upload_file_temp", "upload", TempFilePath, "ok") \in calls
           /\ verified
    /\ Issued("backup_keepass", "move", TempFilePath) => verified
    /\ Call("upload_file_temp", "upload", TempFilePath, "fail") \in calls =>
           /\ ~Issued("verify_upload", "download", TempFilePath)
           /\ ~Issued("backup_keepass", "delete", DropboxFilePath)
           /\ ~Issued("backup_keepass", "move", TempFilePath)
    /\ (pc \notin {"verify", "verify_download", "verify_cleanup"}
          /\ state.temp_file_created /\ ~state.file_renamed /\ ~verified) =>
           /\ ~Issued("backup_keepass", "delete", DropboxFilePath)
           /\ ~Issued("backup_keepass", "move", TempFilePath)
    /\ Call("backup_keepass", "delete", DropboxFilePath, "fail") \in calls =>
           ~Issued("backup_keepass", "move", TempFilePath)
    /\ Call("backup_keepass", "move", TempFilePath, "fail") \in calls =>
           ~state.file_renamed /\ ~Succeeded

SnapshotRestored ==
    /\ Truthy(state.backup_path)
    /\ Call("rollback", "download", state.backup_path, "ok") \in calls
    /\ Call("rollback", "upload", DropboxFilePath, "ok") \in calls
RollbackPcs ==
    {"rb_begin", "rb_delete_temp", "rb_rename_back", "rb_check_backup",
     "rb_download", "rb_upload", "rb_end"}
StaleTemp == preStore[TempFilePath] # Absent

\* C21 (as stated): when the promote failed after the delete, the snapshot was
\* created and rollback's download and re-upload succeeded, the final path
\* holds the pre-run content and the temporary object is absent.
C21_RestoredAndTempGone ==
    (Done /\ DeletedThenPromoteFailed /\ SnapshotCreated /\ SnapshotRestored) =>
        /\ store[DropboxFilePath] = preStore[DropboxFilePath]
        /\ store[TempFilePath] = Absent

\* C21 (amended): in that case the final path holds the pre-run content, and
\* the temporary object is absent exactly when rollback's delete of it succeeded.
C21_RestoredTempGoneIfDeleted ==
    (Done /\ DeletedThenPromoteFailed /\ SnapshotCreated /\ SnapshotRestored) =>
        /\ store[DropboxFilePath] = preStore[DropboxFilePath]
        /\ store[TempFilePath] = Absent <=>
               Call("rollback", "delete", TempFilePath, "ok") \in calls

C21_Witness ==
    /\ Done
    /\ DeletedThenPromoteFailed /\ SnapshotCreated /\ SnapshotRestored
    /\ store[DropboxFilePath] = preStore[DropboxFilePath]
    /\ store[TempFilePath] = Absent

\* C22: rollback never runs with file_renamed true, no compensating move of
\* the final path is ever issued, and once the promote is recorded no rollback
\* has started in the run.
C22_NoRollbackAfterPromote ==
    /\ pc \in RollbackPcs => ~state.file_renamed
    /\ ~\E c \in calls : c.fn = "rollback" /\ c.op = "move"
    /\ state.file_renamed => ~RollbackStarted /\ store[DropboxFilePath] = srcContent

C22_Witness ==
    /\ pc = "rb_rename_back"
    /\ rbSite = "rename"
    /\ Call("backup_keepass", "move", TempFilePath, "fail") \in calls
    /\ state.temp_file_created

\* C23: with a temporary object left over from an earlier run, a successful
\* temporary upload replaces it, and a run that returns success leaves the
\* source content at the final path and nothing at the temporary path.
C23_StaleTempHarmless ==
    StaleTemp =>
        /\ pc = "mark_temp" => store[TempFilePath] \in {srcContent, Corrupt}
        /\ Succeeded => /\ store[DropboxFilePath] = srcContent
                        /\ store[TempFilePath] = Absent

C23_Witness ==
    /\ StaleTemp
    /\ preStore[TempFilePath] # srcContent
    /\ Succeeded
    /\ store[DropboxFilePath] = srcContent
    /\ store[TempFilePath] = Absent

\* C24: whenever the run has emptied the final path, the pre-run content is
\* held at the snapshot path.
C24_SnapshotBeforeDelete ==
    (/\ Call("backup_keepass", "delete", DropboxFilePath, "ok") \in calls
     /\ store[DropboxFilePath] = Absent) =>
        /\ Truthy(state.backup_path)
        /\ store[state.backup_path] = preStore[DropboxFilePath]

\* C25: rollback is invoked at most once in a run.
C25_RollbackAtMostOnce == Len(rbFailures) <= 1

\* C26: when rollback returned true, the temporary object is absent and a final
\* path that held an object before the run holds that content again.
C26_TrueMeansRestored ==
    (Done /\ RollbackReturned /\ Last(rbResults) = "true") =>
        /\ store[TempFilePath] = Absent
        /\ FinalExistedBefore => store[DropboxFilePath] = preStore[DropboxFilePath]

\* C27: a run never ends by propagating an exception to its caller.
C27_AlwaysReturnsResult == Done => result.kind = "returned"

\* C28: when a successful run follows a successful run, every snapshot object
\* that was in the store at the start of the later run is still there unchanged.
C28_SnapshotsNeverOverwritten ==
    (prev.result.kind = "returned" /\ prev.result.success /\ Succeeded) =>
        \A p \in SnapshotPaths : preStore[p] # Absent => store[p] = preStore[p]

====
